---------------------------- MODULE Spec2Model ----------------------------
(***************************************************************************)
(* A model of the aws-sigv4-action command (src/action.go): main, its      *)
(* request builder buildRequest / buildRequestWithBodyReader and the       *)
(* region resolver guessAWSRegion.                                         *)
(*                                                                         *)
(* Text is modelled as a sequence of one-character strings, so that        *)
(* splitting, trimming, URL parsing and regular-expression matching are    *)
(* computed character by character, the way the Go library calls of the    *)
(* source compute them.                                                    *)
(***************************************************************************)
EXTENDS Naturals, Sequences, FiniteSets, TLC

(***************************************************************************)
(* Bounds of the model.                                                    *)
(***************************************************************************)
MaxHeaderLen == 5
MaxHostFrags == 4
MaxBodyLen == 2

(***************************************************************************)
(* Generic text helpers (package strings).                                 *)
(***************************************************************************)
SeqsUpTo(A, n) == UNION {[1..k -> A] : k \in 0..n}

RECURSIVE Flatten(_)
Flatten(ss) == IF ss = <<>> THEN <<>> ELSE Head(ss) \o Flatten(Tail(ss))

\* strings.IndexByte: the first position of c in s, 0 when absent.
IndexByte(s, c) ==
    LET at == {i \in 1..Len(s) : s[i] = c}
    IN  IF at = {} THEN 0 ELSE CHOOSE i \in at : \A j \in at : i <= j

\* strings.LastIndexByte: the last position of c in s, 0 when absent.
LastIndexByte(s, c) ==
    LET at == {i \in 1..Len(s) : s[i] = c}
    IN  IF at = {} THEN 0 ELSE CHOOSE i \in at : \A j \in at : i >= j

\* strings.HasPrefix
HasPrefix(s, p) == Len(p) <= Len(s) /\ SubSeq(s, 1, Len(p)) = p

\* Whether text p occurs in s starting at position i.
OccursAt(s, p, i) == i + Len(p) - 1 <= Len(s) /\ SubSeq(s, i, i + Len(p) - 1) = p

\* strings.Split(s, sep) for a one-byte separator: always at least one part.
RECURSIVE Split(_, _)
Split(s, sep) ==
    LET i == IndexByte(s, sep)
    IN  IF i = 0 THEN <<s>>
        ELSE <<SubSeq(s, 1, i - 1)>> \o Split(SubSeq(s, i + 1, Len(s)), sep)

\* strings.Trim(s, cutset): s without the leading and trailing bytes of cutset.
RECURSIVE TrimLeft(_, _)
TrimLeft(s, cutset) ==
    IF s # <<>> /\ Head(s) \in cutset THEN TrimLeft(Tail(s), cutset) ELSE s

RECURSIVE TrimRight(_, _)
TrimRight(s, cutset) ==
    IF s # <<>> /\ s[Len(s)] \in cutset
    THEN TrimRight(SubSeq(s, 1, Len(s) - 1), cutset) ELSE s

Trim(s, cutset) == TrimRight(TrimLeft(s, cutset), cutset)

\* strings.Cut(s, sep): the text before and after the first sep.
Cut(s, sep) ==
    LET i == IndexByte(s, sep)
    IN  IF i = 0 THEN [before |-> s, after |-> <<>>, found |-> FALSE]
        ELSE [before |-> SubSeq(s, 1, i - 1),
              after |-> SubSeq(s, i + 1, Len(s)), found |-> TRUE]

(***************************************************************************)
(* Character classes of the bytes the model's inputs are drawn from.       *)
(***************************************************************************)
LowerAlphabet ==
    <<"a", "b", "c", "d", "e", "f", "g", "h", "i", "j", "k", "l", "m",
      "n", "o", "p", "q", "r", "s", "t", "u", "v", "w", "x", "y", "z">>
UpperAlphabet ==
    <<"A", "B", "C", "D", "E", "F", "G", "H", "I", "J", "K", "L", "M",
      "N", "O", "P", "Q", "R", "S", "T", "U", "V", "W", "X", "Y", "Z">>
LowerLetters == {LowerAlphabet[i] : i \in 1..26}
UpperLetters == {UpperAlphabet[i] : i \in 1..26}
Digits == {"0", "1", "2", "3", "4", "5", "6", "7", "8", "9"}
\* The control bytes (below 0x20, and 0x7f) that occur in the model's inputs.
CtlBytes == {"\t", "\n"}
Letters == LowerLetters \cup UpperLetters

ToUpper(c) ==
    IF c \in LowerLetters
    THEN UpperAlphabet[CHOOSE i \in 1..26 : LowerAlphabet[i] = c] ELSE c

ToLower(c) ==
    IF c \in UpperLetters
    THEN LowerAlphabet[CHOOSE i \in 1..26 : UpperAlphabet[i] = c] ELSE c

(***************************************************************************)
(* net/url, as used by guessAWSRegion (url.Parse, URL.Hostname)     and by  *)
(* http.NewRequest.  The inputs of the model hold no '%', '[' or ']', so   *)
(* percent-decoding and IPv6 literals are left out.                        *)
(***************************************************************************)
\* The bytes getScheme accepts after the first byte of a scheme.
SchemeMarks == Digits \cup {"+", "-", "."}

\* url.getScheme: the scheme before the first ':' when only scheme bytes
\* precede it.
RECURSIVE getSchemeFrom(_, _)
getSchemeFrom(rawURL, i) ==
    IF i > Len(rawURL) THEN [scheme |-> <<>>, path |-> rawURL, err |-> FALSE]
    ELSE LET c == rawURL[i]
         IN  IF c \in Letters
             THEN getSchemeFrom(rawURL, i + 1)
             ELSE IF c \in SchemeMarks
             THEN IF i = 1 THEN [scheme |-> <<>>, path |-> rawURL, err |-> FALSE]
                  ELSE getSchemeFrom(rawURL, i + 1)
             ELSE IF c = ":"
             THEN IF i = 1 THEN [scheme |-> <<>>, path |-> <<>>, err |-> TRUE]
                  ELSE [scheme |-> SubSeq(rawURL, 1, i - 1),
                        path |-> SubSeq(rawURL, i + 1, Len(rawURL)), err |-> FALSE]
             ELSE [scheme |-> <<>>, path |-> rawURL, err |-> FALSE]

getScheme(rawURL) == getSchemeFrom(rawURL, 1)

\* url.validOptionalPort: "" or ":" followed by digits only.
validOptionalPort(port) ==
    port = <<>> \/ (port[1] = ":" /\ \A i \in 2..Len(port) : port[i] \in Digits)

\* The bytes url.unescape accepts in a host (shouldEscape in host mode is false).
HostBytes == Letters \cup Digits \cup {"-", "_", ".", "~", ":", "*", "+", "="}

ValidHostByte(c) == c \in HostBytes

\* url.validUserinfo
UserinfoBytes == Letters \cup Digits \cup {"-", ".", "_", ":", "~", "+", "=", "@"}

validUserinfo(s) == \A i \in 1..Len(s) : s[i] \in UserinfoBytes

\* url.parseHost
parseHost(host) ==
    LET i == LastIndexByte(host, ":")
    IN  IF i # 0 /\ ~validOptionalPort(SubSeq(host, i, Len(host)))
        THEN [host |-> <<>>, err |-> TRUE]
        ELSE IF \E k \in 1..Len(host) : ~ValidHostByte(host[k])
        THEN [host |-> <<>>, err |-> TRUE]
        ELSE [host |-> host, err |-> FALSE]

\* url.parseAuthority
parseAuthority(authority) ==
    LET i == LastIndexByte(authority, "@")
        h == parseHost(SubSeq(authority, i + 1, Len(authority)))
    IN  IF h.err THEN h
        ELSE IF i # 0 /\ ~validUserinfo(SubSeq(authority, 1, i - 1))
        THEN [host |-> <<>>, err |-> TRUE]
        ELSE h

\* url.Parse: err is TRUE when Parse returns (nil, error); otherwise Host is
\* the Host field of the returned URL.
url_Parse(rawURL) ==
    LET u == Cut(rawURL, "#").before
        fail == [err |-> TRUE, Host |-> <<>>]
        ok(h) == [err |-> FALSE, Host |-> h]
    IN  IF \E i \in 1..Len(u) : u[i] \in CtlBytes THEN fail
        ELSE IF u = <<"*">> THEN ok(<<>>)
        ELSE LET sch == getScheme(u)
                 rest == Cut(sch.path, "?").before
             IN  IF sch.err THEN fail
                 ELSE IF ~HasPrefix(rest, <<"/">>) /\ sch.scheme # <<>>
                 THEN ok(<<>>)
                 ELSE IF ~HasPrefix(rest, <<"/">>)
                         /\ IndexByte(Cut(rest, "/").before, ":") # 0
                 THEN fail
                 ELSE IF (sch.scheme # <<>> \/ ~HasPrefix(rest, <<"/", "/", "/">>))
                         /\ HasPrefix(rest, <<"/", "/">>)
                 THEN LET a == SubSeq(rest, 3, Len(rest))
                          pa == parseAuthority(Cut(a, "/").before)
                      IN  IF pa.err THEN fail ELSE ok(pa.host)
                 ELSE ok(<<>>)

\* URL.Hostname: Host without a valid port.
Hostname(Host) ==
    LET colon == LastIndexByte(Host, ":")
    IN  IF colon # 0 /\ validOptionalPort(SubSeq(Host, colon, Len(Host)))
        THEN SubSeq(Host, 1, colon - 1)
        ELSE Host

(***************************************************************************)
(* awsRegionRegExp and regexp.FindStringSubmatch (leftmost-first).         *)
(*   (us(-gov)?|ap|ca|cn|eu|sa)-(central|(north|south)?(east|west)?)-\d    *)
(***************************************************************************)
\* The alternatives of the first group, in the order the matcher tries them
\* (the greedy (-gov)? first).
RegionPrefixAlts ==
    << <<"u", "s", "-", "g", "o", "v">>, <<"u", "s">>, <<"a", "p">>,
       <<"c", "a">>, <<"c", "n">>, <<"e", "u">>, <<"s", "a">> >>

North == <<"n", "o", "r", "t", "h">>
South == <<"s", "o", "u", "t", "h">>
East == <<"e", "a", "s", "t">>
West == <<"w", "e", "s", "t">>

\* The alternatives of the second group, in the order the matcher tries them.
RegionDirectionAlts ==
    << <<"c", "e", "n", "t", "r", "a", "l">>,
       North \o East, North \o West, North,
       South \o East, South \o West, South,
       East, West, <<>> >>

\* The first k in 1..Len(alts) that satisfies hit, 0 when none does.
FirstAlt(alts, hit(_)) ==
    LET ks == {k \in 1..Len(alts) : hit(k)}
    IN  IF ks = {} THEN 0 ELSE CHOOSE k \in ks : \A j \in ks : k <= j

\* The second group, "-" and a digit matched from position j of s on: the
\* position of the digit, 0 when they do not match there.
MatchDirectionAt(s, j) ==
    LET lit(k) == RegionDirectionAlts[k] \o <<"-">>
        hit(k) == /\ OccursAt(s, lit(k), j)
                  /\ j + Len(lit(k)) <= Len(s)
                  /\ s[j + Len(lit(k))] \in Digits
        k == FirstAlt(RegionDirectionAlts, hit)
    IN  IF k = 0 THEN 0 ELSE j + Len(lit(k))

\* The end position of the match of awsRegionRegExp that starts at position i
\* of s, 0 when there is none there: the first alternative of the first
\* group after which "-" and the rest of the expression match.
MatchRegionAt(s, i) ==
    LET lit(k) == RegionPrefixAlts[k] \o <<"-">>
        hit(k) == /\ OccursAt(s, lit(k), i)
                  /\ MatchDirectionAt(s, i + Len(lit(k))) # 0
        k == FirstAlt(RegionPrefixAlts, hit)
    IN  IF k = 0 THEN 0 ELSE MatchDirectionAt(s, i + Len(lit(k)))

\* regexp.FindStringSubmatch(s)[0]: the leftmost match; found is FALSE when
\* the result is nil.
FindStringSubmatch(s) ==
    LET starts == {i \in 1..Len(s) : MatchRegionAt(s, i) # 0}
    IN  IF starts = {} THEN [found |-> FALSE, match |-> <<>>]
        ELSE LET i == CHOOSE i \in starts : \A j \in starts : i <= j
             IN  [found |-> TRUE, match |-> SubSeq(s, i, MatchRegionAt(s, i))]

(***************************************************************************)
(* guessAWSRegion (src/action.go:138-147).  outcome is "ok", "error" (the  *)
(* function returns "" and the error) or "panic": url.Parse's error is     *)
(* dropped, so u is nil when parsing fails and u.Hostname() dereferences   *)
(* it.                                                                     *)
(***************************************************************************)
ErrMalformed == "lambda function URL is malformed, impossible to guess AWS region"

\* guessAWSRegion matching the whole URL instead of its hostname.
guessAWSRegion_RawURL(rawURL) ==
    LET u == url_Parse(rawURL)
        result == FindStringSubmatch(rawURL)
    IN  IF u.err THEN [outcome |-> "panic", region |-> <<>>, err |-> ""]
        ELSE IF ~result.found
        THEN [outcome |-> "error", region |-> <<>>, err |-> ErrMalformed]
        ELSE [outcome |-> "ok", region |-> result.match, err |-> ""]

guessAWSRegion(rawURL) ==
    LET u == url_Parse(rawURL)
        result == FindStringSubmatch(Hostname(u.Host))
    IN  IF u.err THEN [outcome |-> "panic", region |-> <<>>, err |-> ""]
        ELSE IF ~result.found
        THEN [outcome |-> "error", region |-> <<>>, err |-> ErrMalformed]
        ELSE [outcome |-> "ok", region |-> result.match, err |-> ""]

(***************************************************************************)
(* net/http and net/textproto, as used by buildRequestWithBodyReader.      *)
(***************************************************************************)
\* httpguts token bytes: what a method and a canonicalisable header key
\* consist of.
TokenBytes ==
    Letters \cup Digits \cup {"!", "#", "$", "&", "*", "+", "-", ".", "^", "_", "|", "~"}

IsTokenByte(c) == c \in TokenBytes

\* http.validMethod
validMethod(method) ==
    Len(method) > 0 /\ \A i \in 1..Len(method) : IsTokenByte(method[i])

\* textproto.CanonicalMIMEHeaderKey: a key holding a non-token byte is left
\* as it is; otherwise the first letter and every letter after '-' is upper
\* case and the others are lower case.
CanonicalMIMEHeaderKey(s) ==
    IF \E i \in 1..Len(s) : ~IsTokenByte(s[i]) THEN s
    ELSE [i \in 1..Len(s) |->
            IF i = 1 \/ s[i - 1] = "-" THEN ToUpper(s[i]) ELSE ToLower(s[i])]

\* http.Header.Add: the header is kept as the sequence of its (key, value)
\* pairs in the order they were added; the values of a key are the values
\* of its pairs, in that order.
HeaderAdd(h, key, value) ==
    Append(h, [key |-> CanonicalMIMEHeaderKey(key), value |-> value])

\* http.Header.Values
HeaderValues(h, key) ==
    LET k == CanonicalMIMEHeaderKey(key)
    IN  SelectSeq(h, LAMBDA e : e.key = k)

(***************************************************************************)
(* Readers.  A strings.Reader is its text s and the number i of bytes      *)
(* already read.  The heap of readers is a sequence; a request's Body is   *)
(* the index of the reader it wraps (ioutil.NopCloser shares the reader),  *)
(* or NoBody.                                                              *)
(***************************************************************************)
NoBody == 0

\* strings.NewReader
NewReader(s) == [s |-> s, i |-> 0]

\* strings.Reader.Len: the unread bytes.
ReaderLen(r) == Len(r.s) - r.i

\* The bytes a full read (io.Copy, ioutil.ReadAll, the transport's body
\* write) gets from the reader.
ReadAll(r) == SubSeq(r.s, r.i + 1, Len(r.s))

\* The reader after such a read.
Drained(r) == [r EXCEPT !.i = Len(r.s)]

\* The bytes the body of a request yields when it is read now.
BodyBytes(request, heap) ==
    IF request.Body = NoBody THEN <<>> ELSE ReadAll(heap[request.Body])

\* sha256.New, io.Copy and hex.EncodeToString (src/action.go:131-133): the
\* digest is kept as the bytes it was computed over, which two digests
\* share exactly when they are equal (up to SHA-256 collisions).
PayloadHash(bytes) == [sha256hex |-> bytes]

NoRequest ==
    [Method |-> <<>>, Host |-> <<>>, Header |-> <<>>, Body |-> NoBody,
     ContentLength |-> 0]

\* http.NewRequest(method, url, body) for a *strings.Reader body, heap[body].
NewRequest(method, rawURL, body, heap) ==
    LET m == IF method = <<>> THEN <<"G", "E", "T">> ELSE method
        u == url_Parse(rawURL)
        n == ReaderLen(heap[body])
    IN  IF ~validMethod(m) THEN [err |-> "net/http: invalid method", req |-> NoRequest]
        ELSE IF u.err THEN [err |-> "parse", req |-> NoRequest]
        ELSE [err |-> "",
              req |-> [Method |-> m, Host |-> u.Host, Header |-> <<>>,
                       Body |-> IF n = 0 THEN NoBody ELSE body,
                       ContentLength |-> n]]

(***************************************************************************)
(* The header loop of buildRequestWithBodyReader (src/action.go:121-126).  *)
(***************************************************************************)
\* One pass of the loop body over the lines from position k on: panic is
\* TRUE when strings.Split(header, ":")[1] indexes past the end.
RECURSIVE addHeaderLines(_, _, _)
addHeaderLines(h, headers, k) ==
    IF k > Len(headers) THEN [panic |-> FALSE, Header |-> h]
    ELSE LET parts == Split(headers[k], ":")
         IN  IF Len(parts) < 2 THEN [panic |-> TRUE, Header |-> h]
             ELSE addHeaderLines(
                      HeaderAdd(h, Trim(parts[1], {" "}), Trim(parts[2], {" "})),
                      headers, k + 1)

(***************************************************************************)
(* buildRequestWithBodyReader (src/action.go:114-136), called by           *)
(* buildRequest (109-112) with a new reader over requestBody.  outcome is  *)
(* "ok" (the function returns req and payloadHash), "exit" (os.Exit(1)     *)
(* after http.NewRequest failed) or "panic" (index out of range in the     *)
(* header loop).  heap is the heap of readers after the call.              *)
(***************************************************************************)
buildRequestWithBodyReader(url, method, region, body, headers, heap) ==
    LET nr == NewRequest(method, url, body, heap)
        hs == addHeaderLines(nr.req.Header, Split(headers, "\n"), 1)
        bytes == ReadAll(heap[body])
    IN  IF nr.err # ""
        THEN [outcome |-> "exit", req |-> NoRequest, payloadHash |-> PayloadHash(<<>>),
              heap |-> heap]
        ELSE IF hs.panic
        THEN [outcome |-> "panic", req |-> NoRequest, payloadHash |-> PayloadHash(<<>>),
              heap |-> heap]
        ELSE [outcome |-> "ok", req |-> [nr.req EXCEPT !.Header = hs.Header],
              payloadHash |-> PayloadHash(bytes),
              heap |-> [heap EXCEPT ![body] = Drained(heap[body])]]

buildRequest(url, method, region, body, headers, heap) ==
    buildRequestWithBodyReader(url, method, region, Len(heap) + 1, headers,
                               Append(heap, NewReader(body)))

(***************************************************************************)
(* The state of one invocation of main (src/action.go:39-107).             *)
(***************************************************************************)
VARIABLES
    lambdaURL,      \* flag -lambda-url
    requestBody,    \* flag -body
    requestMethod,  \* flag -method
    headerList,     \* flag -headers
    env,            \* the environment variables main reads
    pc,             \* the statement main is at
    awsRegion,      \* main's awsRegion
    err,            \* main's err
    credentials,    \* main's credentials
    req,            \* main's req
    bodyHash,       \* main's bodyHash
    readers,        \* the heap of strings.Readers
    signResult,     \* what signer.SignHTTP returned: "none", "ok" or "error"
    dispatches,     \* the number of calls of client.Do
    sentBody,       \* the body bytes client.Do took from req.Body
    resp,           \* the response client.Do returned
    respBody,       \* main's respBody
    stdout,         \* what was written to os.Stdout
    stderr,         \* what was written to os.Stderr
    exitCode        \* the exit status, once pc = "exited"

vars ==
    <<lambdaURL, requestBody, requestMethod, headerList, env, pc, awsRegion,
      err, credentials, req, bodyHash, readers, signResult, dispatches,
      sentBody, resp, respBody, stdout, stderr, exitCode>>

inputs == <<lambdaURL, requestBody, requestMethod, headerList, env>>

(***************************************************************************)
(* The inputs the model draws from.                                        *)
(***************************************************************************)
EuWest1 == <<"e", "u", "-", "w", "e", "s", "t", "-", "1">>
UrlEuWest1 == 
    <<"h", "t", "t", "p", "s", ":", "/", "/", "a", ".", "e", "u", "-", "w", "e", "s", "t", "-", "1", ".", "o", "n", ".", "a", "w", "s", "/">>
UrlMalformedRegion == 
    <<"h", "t", "t", "p", "s", ":", "/", "/", "a", ".", "e", "u", "-", "u", "s", "-", "2", ".", "o", "n", ".", "a", "w", "s", "/">>
UrlUnparseable == 
    <<"h", "t", "t", "p", "s", ":", "/", "/", "a", " ", "b", "/">>
UrlRegionInPath == 
    <<"h", "t", "t", "p", "s", ":", "/", "/", "a", ".", "o", "n", ".", "a", "w", "s", "/", "e", "u", "-", "w", "e", "s", "t", "-", "1">>

LambdaURLs ==
    {<<>>, UrlEuWest1, UrlMalformedRegion, UrlUnparseable, UrlRegionInPath}

MethodGET == <<"G", "E", "T">>
MethodPOST == <<"P", "O", "S", "T">>
MethodInvalid == <<"P", " ", "T">>
Methods == {MethodGET, MethodPOST, MethodInvalid}

Bodies == SeqsUpTo({"{", "}"}, MaxBodyLen)

AccessKeyIDs == {<<>>, <<"A", "K", "I", "D">>}
SecretAccessKeys == {<<>>, <<"S", "E", "C", "R", "E", "T">>}
SessionTokens == {<<>>, <<"S", "E", "S", "S", "I", "O", "N">>}
Regions == {<<>>, EuWest1}

\* Header texts of main's runs: none, "a:b", a line without a colon, and
\* two lines with a second colon, a tab and an empty value.
HeaderLists ==
    {<<>>, <<"a", ":", "b">>, <<"a">>,
     <<"a", ":", " ", "b", ":", "c", "\n", "\t", "a", ":">>}

Environments ==
    [AWS_REGION : Regions, AWS_ACCESS_KEY_ID : AccessKeyIDs,
     AWS_SECRET_ACCESS_KEY : SecretAccessKeys, AWS_SESSION_TOKEN : SessionTokens]

NoCredentials ==
    [AccessKeyID |-> <<>>, SecretAccessKey |-> <<>>, SessionToken |-> <<>>]

NoResponse == [Status |-> "", StatusCode |-> 0, Body |-> <<>>]

\* The responses the endpoint may give.
Responses ==
    {[Status |-> "200 OK", StatusCode |-> 200, Body |-> <<"o", "k">>],
     [Status |-> "403 Forbidden", StatusCode |-> 403, Body |-> <<"n", "o">>]}

\* The local variables of main before its first statement.
Locals ==
    /\ awsRegion = <<>>
    /\ err = ""
    /\ credentials = NoCredentials
    /\ req = NoRequest
    /\ bodyHash = PayloadHash(<<>>)
    /\ readers = <<>>
    /\ signResult = "none"
    /\ dispatches = 0
    /\ sentBody = <<>>
    /\ resp = NoResponse
    /\ respBody = <<>>
    /\ stdout = <<>>
    /\ stderr = <<>>
    /\ exitCode = 0

Init ==
    /\ lambdaURL \in LambdaURLs
    /\ requestBody \in Bodies
    /\ requestMethod \in Methods
    /\ headerList \in HeaderLists
    /\ env \in Environments
    /\ pc = "main"
    /\ Locals

\* os.Exit(code) after writing msg to os.Stderr.
Exit(msg, code) ==
    /\ stderr' = Append(stderr, msg)
    /\ exitCode' = code
    /\ pc' = "exited"

\* A run-time panic: the message goes to os.Stderr and the exit status is 2.
Panic(msg) == Exit(msg, 2)

(***************************************************************************)
(* The statements of main, one action each.                                *)
(***************************************************************************)
\* src/action.go:44-47
CheckLambdaURL ==
    /\ pc = "main"
    /\ IF lambdaURL = <<>>
       THEN Exit("lambda-url is required", 1)
       ELSE pc' = "region" /\ UNCHANGED <<stderr, exitCode>>
    /\ UNCHANGED <<inputs, awsRegion, err, credentials, req, bodyHash, readers,
                   signResult, dispatches, sentBody, resp, respBody, stdout>>

\* src/action.go:49-59
ResolveRegion ==
    /\ pc = "region"
    /\ IF env.AWS_REGION # <<>>
       THEN /\ awsRegion' = env.AWS_REGION
            /\ pc' = "accessKey"
            /\ UNCHANGED <<err, stdout, stderr, exitCode>>
       ELSE \E g \in {guessAWSRegion(lambdaURL)} :
                /\ stdout' = Append(stdout,
                        "AWS region is not specified, try to guess from lambda URL")
                /\ IF g.outcome = "panic"
                   THEN /\ Panic("panic: invalid memory address or nil pointer dereference")
                        /\ UNCHANGED <<awsRegion, err>>
                   ELSE /\ awsRegion' = g.region
                        /\ err' = g.err
                        /\ IF g.err # ""
                           THEN Exit(g.err, 1)
                           ELSE pc' = "accessKey" /\ UNCHANGED <<stderr, exitCode>>
    /\ UNCHANGED <<inputs, credentials, req, bodyHash, readers, signResult,
                   dispatches, sentBody, resp, respBody>>

\* src/action.go:61-65
CheckAccessKeyID ==
    /\ pc = "accessKey"
    /\ IF env.AWS_ACCESS_KEY_ID = <<>>
       THEN Exit("AWS_ACCESS_KEY_ID env variable is required", 1)
       ELSE pc' = "secretKey" /\ UNCHANGED <<stderr, exitCode>>
    /\ UNCHANGED <<inputs, awsRegion, err, credentials, req, bodyHash, readers,
                   signResult, dispatches, sentBody, resp, respBody, stdout>>

\* CheckSecretAccessKey without its test of the secret key.
CheckSecretAccessKey_Unchecked ==
    /\ pc = "secretKey"
    /\ pc' = "credentials"
    /\ UNCHANGED <<inputs, awsRegion, err, credentials, req, bodyHash, readers,
                   signResult, dispatches, sentBody, resp, respBody, stdout,
                   stderr, exitCode>>

\* src/action.go:67-71
CheckSecretAccessKey ==
    /\ pc = "secretKey"
    /\ IF env.AWS_SECRET_ACCESS_KEY = <<>>
       THEN Exit("AWS_SECRET_ACCESS_KEY env variable is required", 1)
       ELSE pc' = "credentials" /\ UNCHANGED <<stderr, exitCode>>
    /\ UNCHANGED <<inputs, awsRegion, err, credentials, req, bodyHash, readers,
                   signResult, dispatches, sentBody, resp, respBody, stdout>>

\* src/action.go:73-78
MakeCredentials ==
    /\ pc = "credentials"
    /\ credentials' =
          IF env.AWS_SESSION_TOKEN = <<>>
          THEN [AccessKeyID |-> env.AWS_ACCESS_KEY_ID,
                SecretAccessKey |-> env.AWS_SECRET_ACCESS_KEY,
                SessionToken |-> <<>>]
          ELSE [AccessKeyID |-> env.AWS_ACCESS_KEY_ID,
                SecretAccessKey |-> env.AWS_SECRET_ACCESS_KEY,
                SessionToken |-> env.AWS_SESSION_TOKEN]
    /\ pc' = "build"
    /\ UNCHANGED <<inputs, awsRegion, err, req, bodyHash, readers, signResult,
                   dispatches, sentBody, resp, respBody, stdout, stderr, exitCode>>

\* src/action.go:80, the call of buildRequest (109-136)
BuildRequest ==
    /\ pc = "build"
    /\ \E b \in {buildRequest(lambdaURL, requestMethod, awsRegion, requestBody,
                             headerList, readers)} :
           /\ readers' = b.heap
           /\ req' = b.req
           /\ bodyHash' = b.payloadHash
           /\ CASE b.outcome = "exit" -> Exit("error building the http request", 1)
                [] b.outcome = "panic" ->
                       Panic("panic: runtime error: index out of range [1] with length 1")
                [] OTHER -> pc' = "resetBody" /\ UNCHANGED <<stderr, exitCode>>
    /\ UNCHANGED <<inputs, awsRegion, err, credentials, signResult, dispatches,
                   sentBody, resp, respBody, stdout>>

\* ResetBody without the new reader: the request keeps the body that
\* buildRequest hashed.
ResetBody_Omitted ==
    /\ pc = "resetBody"
    /\ pc' = "sign"
    /\ UNCHANGED <<inputs, awsRegion, err, credentials, req, bodyHash, readers,
                   signResult, dispatches, sentBody, resp, respBody, stdout,
                   stderr, exitCode>>

\* src/action.go:81
ResetBody ==
    /\ pc = "resetBody"
    /\ readers' = Append(readers, NewReader(requestBody))
    /\ req' = [req EXCEPT !.Body = Len(readers) + 1]
    /\ pc' = "sign"
    /\ UNCHANGED <<inputs, awsRegion, err, credentials, bodyHash, signResult,
                   dispatches, sentBody, resp, respBody, stdout, stderr, exitCode>>

\* The headers signer.SignHTTP sets on the request it signed.
SignedHeader(h, creds) ==
    LET a == HeaderAdd(h, <<"A", "u", "t", "h", "o", "r", "i", "z", "a", "t", "i", "o", "n">>,
                       <<"A", "W", "S", "4">>)
        d == HeaderAdd(a, <<"X", "-", "A", "m", "z", "-", "D", "a", "t", "e">>, <<"n", "o", "w">>)
    IN  IF creds.SessionToken = <<>> THEN d
        ELSE HeaderAdd(d, <<"X", "-", "A", "m", "z", "-", "S", "e", "c", "u", "r", "i", "t", "y",
                            "-", "T", "o", "k", "e", "n">>, creds.SessionToken)

\* src/action.go:83-84: signer.SignHTTP returns an error or signs req; main
\* drops what it returns.
SignHTTP ==
    /\ pc = "sign"
    /\ \E ok \in BOOLEAN :
          /\ signResult' = IF ok THEN "ok" ELSE "error"
          /\ req' = IF ok THEN [req EXCEPT !.Header = SignedHeader(req.Header, credentials)]
                    ELSE req
    /\ pc' = "dispatch"
    /\ UNCHANGED <<inputs, awsRegion, err, credentials, bodyHash, readers,
                   dispatches, sentBody, resp, respBody, stdout, stderr, exitCode>>

\* src/action.go:86-91: client.Do(req) reads req.Body to send it.  A body
\* shorter or longer than a positive ContentLength is a transport error;
\* otherwise the call fails or returns a response.
Dispatch ==
    /\ pc = "dispatch"
    /\ \E body \in {BodyBytes(req, readers)} :
           /\ dispatches' = dispatches + 1
           /\ sentBody' = body
           /\ readers' = IF req.Body = NoBody THEN readers
                         ELSE [readers EXCEPT ![req.Body] = Drained(readers[req.Body])]
           /\ \E r \in Responses \cup {NoResponse} :
                 /\ req.ContentLength > 0 /\ Len(body) # req.ContentLength
                       => r = NoResponse
                 /\ resp' = r
                 /\ IF r = NoResponse
                    THEN err' = "transport" /\ Exit("HTTP error", 1)
                    ELSE err' = "" /\ pc' = "readBody" /\ UNCHANGED <<stderr, exitCode>>
    /\ UNCHANGED <<inputs, awsRegion, credentials, req, bodyHash, signResult,
                   respBody, stdout>>

\* src/action.go:93-96: ioutil.ReadAll(resp.Body) returns the whole body, or
\* the bytes read before the connection failed and an error; main reports
\* the error and goes on.
ReadResponse ==
    /\ pc = "readBody"
    /\ \E n \in 0..Len(resp.Body) :
          /\ respBody' = SubSeq(resp.Body, 1, n)
          /\ IF n < Len(resp.Body)
             THEN /\ err' = "unexpected EOF"
                  /\ stderr' = Append(stderr, "error trying to decode response body")
             ELSE /\ err' = ""
                  /\ UNCHANGED stderr
    /\ pc' = "output"
    /\ UNCHANGED <<inputs, awsRegion, credentials, req, bodyHash, readers,
                   signResult, dispatches, sentBody, resp, stdout, exitCode>>

\* src/action.go:98-107: the status line and the three outputs; main returns.
EmitOutputs ==
    /\ pc = "output"
    /\ stdout' = stdout \o <<"status code", "set-output name=status",
                             "set-output name=code", "set-output name=message">>
    /\ pc' = "exited"
    /\ exitCode' = 0
    /\ UNCHANGED <<inputs, awsRegion, err, credentials, req, bodyHash, readers,
                   signResult, dispatches, sentBody, resp, respBody, stderr>>

Next ==
    \/ CheckLambdaURL
    \/ ResolveRegion
    \/ CheckAccessKeyID
    \/ CheckSecretAccessKey
    \/ MakeCredentials
    \/ BuildRequest
    \/ ResetBody
    \/ SignHTTP
    \/ Dispatch
    \/ ReadResponse
    \/ EmitOutputs

Spec == Init /\ [][Next]_vars

(***************************************************************************)
(* buildRequest on its own: the runs of main from the call of buildRequest *)
(* (src/action.go:80) to its return, for every header text of at most      *)
(* MaxHeaderLen bytes over HeaderAlphabet.                                 *)
(***************************************************************************)
HeaderAlphabet == {"a", ":", " ", "\t", "\n"}
HeaderTexts == SeqsUpTo(HeaderAlphabet, MaxHeaderLen)

FullEnvironment ==
    [AWS_REGION |-> EuWest1, AWS_ACCESS_KEY_ID |-> <<"A", "K", "I", "D">>,
     AWS_SECRET_ACCESS_KEY |-> <<"S", "E", "C", "R", "E", "T">>,
     AWS_SESSION_TOKEN |-> <<"S", "E", "S", "S", "I", "O", "N">>]

InitBuild ==
    /\ lambdaURL = UrlEuWest1
    /\ requestBody \in {<<>>, <<"{", "}">>}
    /\ requestMethod \in {MethodPOST, MethodInvalid}
    /\ headerList \in HeaderTexts
    /\ env = FullEnvironment
    /\ pc = "build"
    /\ awsRegion = env.AWS_REGION
    /\ err = ""
    /\ credentials = [AccessKeyID |-> env.AWS_ACCESS_KEY_ID,
                      SecretAccessKey |-> env.AWS_SECRET_ACCESS_KEY,
                      SessionToken |-> env.AWS_SESSION_TOKEN]
    /\ req = NoRequest
    /\ bodyHash = PayloadHash(<<>>)
    /\ readers = <<>>
    /\ signResult = "none"
    /\ dispatches = 0
    /\ sentBody = <<>>
    /\ resp = NoResponse
    /\ respBody = <<>>
    /\ stdout = <<>>
    /\ stderr = <<>>
    /\ exitCode = 0

NextBuild == BuildRequest

SpecBuild == InitBuild /\ [][NextBuild]_vars

(***************************************************************************)
(* guessAWSRegion on its own: the runs of main from the region step        *)
(* (src/action.go:49) to the end of it, with no AWS_REGION, for every URL  *)
(* made of a frame and a host of at most MaxHostFrags fragments.           *)
(***************************************************************************)
HostFragments ==
    {<<"u", "s", "-", "g", "o", "v", "-", "w", "e", "s", "t", "-", "1">>,
     <<"e", "u", "-", "c", "e", "n", "t", "r", "a", "l", "-", "1">>,
     <<"u", "s">>, <<"-">>, East, <<"-", "1">>, <<" ">>}

\* What precedes and follows the host: a URL with a path, one with a region
\* token in its path, one with a region token as its user name, and a text
\* without a scheme, which has no host.
UrlFrames ==
    {[pre |-> <<"h", "t", "t", "p", "s", ":", "/", "/">>, suf |-> <<"/">>],
     [pre |-> <<"h", "t", "t", "p", "s", ":", "/", "/">>,
      suf |-> <<"/">> \o EuWest1],
     [pre |-> <<"h", "t", "t", "p", "s", ":", "/", "/">> \o EuWest1 \o <<"@">>,
      suf |-> <<"/">>],
     [pre |-> <<>>, suf |-> <<>>]}

GuessURLs ==
    {f.pre \o Flatten(h) \o f.suf :
        h \in SeqsUpTo(HostFragments, MaxHostFrags), f \in UrlFrames} \ {<<>>}

InitGuess ==
    /\ lambdaURL \in GuessURLs
    /\ requestBody = <<>>
    /\ requestMethod = MethodGET
    /\ headerList = <<>>
    /\ env = [FullEnvironment EXCEPT !.AWS_REGION = <<>>]
    /\ pc = "region"
    /\ Locals

NextGuess == ResolveRegion

SpecGuess == InitGuess /\ [][NextGuess]_vars

(***************************************************************************)
(* The region grammar as a language, for the statements about              *)
(* guessAWSRegion: a partition prefix, "-", a direction, "-" and a digit.  *)
(***************************************************************************)
PartitionPrefixes ==
    {<<"u", "s">>, <<"u", "s", "-", "g", "o", "v">>, <<"a", "p">>, <<"c", "a">>,
     <<"c", "n">>, <<"e", "u">>, <<"s", "a">>}

Directions ==
    {<<"c", "e", "n", "t", "r", "a", "l">>}
        \cup {ns \o ew : ns \in {<<>>, North, South}, ew \in {<<>>, East, West}}

RegionTokens ==
    {p \o <<"-">> \o d \o <<"-", n>> :
        p \in PartitionPrefixes, d \in Directions, n \in Digits}

RegionTokenLens == {Len(tok) : tok \in RegionTokens}

\* The places <<i, n>> of h where a region token of n bytes starts at i.
TokenSpans(h) ==
    {sp \in (1..Len(h)) \X RegionTokenLens :
        /\ sp[1] + sp[2] - 1 <= Len(h)
        /\ SubSeq(h, sp[1], sp[1] + sp[2] - 1) \in RegionTokens}

\* The first region token of h, when it has one.
FirstRegionToken(h) ==
    LET sp == CHOOSE x \in TokenSpans(h) : \A y \in TokenSpans(h) : x[1] <= y[1]
    IN  SubSeq(h, sp[1], sp[1] + sp[2] - 1)

\* The hostname of a URL that parses.
HostnameOf(rawURL) == Hostname(url_Parse(rawURL).Host)

\* Whether rawURL parses and its hostname holds a region token.
HasRegionToken(rawURL) ==
    ~url_Parse(rawURL).err /\ TokenSpans(HostnameOf(rawURL)) # {}

\* Whether main is past its region step.
RegionResolved == pc \notin {"main", "region"}

\* The lines of the header text.
HeaderLines == Split(headerList, "\n")

Whitespace == {" ", "\t"}

(***************************************************************************)
(* C1.  Header parsing is lenient: for every header text (also the empty   *)
(* one, a blank line, "Key:" and a line without a colon) buildRequest      *)
(* returns a request, neither exiting nor panicking, whenever the method   *)
(* and the URL are valid; and a line without a value gives the empty       *)
(* value.                                                                  *)
(***************************************************************************)
C1_HeaderParsingIsLenient ==
    (pc # "build" /\ validMethod(requestMethod) /\ ~url_Parse(lambdaURL).err)
        => /\ pc = "resetBody"
           /\ \A k \in 1..Len(HeaderLines) :
                 LET c == Cut(HeaderLines[k], ":")
                 IN  (c.found /\ Trim(c.after, Whitespace) = <<>>)
                        => \E n \in 1..Len(req.Header) : req.Header[n].value = <<>>

(***************************************************************************)
(* C2.  Every header line "Key: Value" with a key is on the request that   *)
(* buildRequest returns, as the key with the value: the value is all the   *)
(* text after the first colon, and spaces and tabs around key and value    *)
(* are removed.                                                            *)
(***************************************************************************)
C2_HeaderLineIsKeyAndValue ==
    pc = "resetBody"
        => \A k \in 1..Len(HeaderLines) :
              LET c == Cut(HeaderLines[k], ":")
                  vs == HeaderValues(req.Header, Trim(c.before, Whitespace))
              IN  (c.found /\ Trim(c.before, Whitespace) # <<>>)
                     => \E n \in 1..Len(vs) : vs[n].value = Trim(c.after, Whitespace)

(***************************************************************************)
(* C3.  Signing is reached only with a target URL, an access key id, a     *)
(* secret key and a region, the explicit one when there is one; when one   *)
(* of them is missing main never gets to build, sign or send a request     *)
(* and its exit status is a failure.                                       *)
(***************************************************************************)
SigningReached == pc \in {"sign", "dispatch", "readBody", "output"} \/ signResult # "none"

ConfigurationMissing ==
    \/ lambdaURL = <<>>
    \/ env.AWS_ACCESS_KEY_ID = <<>>
    \/ env.AWS_SECRET_ACCESS_KEY = <<>>
    \/ (env.AWS_REGION = <<>> /\ ~HasRegionToken(lambdaURL))

C3_SigningNeedsConfiguration ==
    /\ SigningReached
          => /\ lambdaURL # <<>>
             /\ credentials.AccessKeyID # <<>>
             /\ credentials.SecretAccessKey # <<>>
             /\ credentials.AccessKeyID = env.AWS_ACCESS_KEY_ID
             /\ credentials.SecretAccessKey = env.AWS_SECRET_ACCESS_KEY
             /\ awsRegion # <<>>
             /\ (env.AWS_REGION # <<>> => awsRegion = env.AWS_REGION)
    /\ ConfigurationMissing
          => /\ pc \in {"main", "region", "accessKey", "secretKey", "exited"}
             /\ req = NoRequest /\ signResult = "none" /\ dispatches = 0
             /\ (pc = "exited" => exitCode # 0)

\* Signing is reached with a region that was guessed from the URL.
C3_Witness == pc = "sign" /\ env.AWS_REGION = <<>> /\ awsRegion = EuWest1

(***************************************************************************)
(* C4.  With no explicit region and a URL whose hostname holds no region   *)
(* token (also a URL that does not parse), guessAWSRegion returns the      *)
(* empty region and the error "lambda function URL is malformed, ...",     *)
(* and main exits with a failure, without a default region, a signature    *)
(* or a dispatch.                                                          *)
(***************************************************************************)
C4_NoRegionTokenIsAnError ==
    (RegionResolved /\ env.AWS_REGION = <<>> /\ ~HasRegionToken(lambdaURL))
        => /\ awsRegion = <<>>
           /\ err = ErrMalformed
           /\ pc = "exited" /\ exitCode # 0
           /\ req = NoRequest /\ signResult = "none" /\ dispatches = 0

(***************************************************************************)
(* C5.  With no explicit region and a URL whose hostname holds a region    *)
(* token, guessAWSRegion returns no error and the first region token of    *)
(* the hostname, whatever the rest of the URL is.                          *)
(***************************************************************************)
C5_FirstRegionTokenOfHostname ==
    (RegionResolved /\ env.AWS_REGION = <<>> /\ HasRegionToken(lambdaURL))
        => /\ awsRegion = FirstRegionToken(HostnameOf(lambdaURL))
           /\ err # ErrMalformed
           /\ \A k \in 1..Len(stderr) : stderr[k] # ErrMalformed

\* A hostname with two region tokens, in a URL with a third one outside the
\* hostname: the first of the hostname is the region.
C5_Witness ==
    /\ pc = "accessKey" /\ env.AWS_REGION = <<>>
    /\ HasRegionToken(lambdaURL)
    /\ Cardinality({sp[1] : sp \in TokenSpans(HostnameOf(lambdaURL))}) >= 2
    /\ TokenSpans(lambdaURL) # {}
    /\ FirstRegionToken(lambdaURL) # FirstRegionToken(HostnameOf(lambdaURL))
    /\ awsRegion = FirstRegionToken(HostnameOf(lambdaURL))

(***************************************************************************)
(* C6.  Whenever main dispatches, the body bytes the request gives to the  *)
(* transport are the bytes the payload hash was computed over, and both    *)
(* are the body that was supplied.                                         *)
(***************************************************************************)
C6_SentBodyIsHashedBody ==
    dispatches > 0
        => /\ sentBody = requestBody
           /\ bodyHash = PayloadHash(sentBody)

\* A dispatch of a request with a body.
C6_Witness == dispatches > 0 /\ requestBody # <<>> /\ sentBody = requestBody

(***************************************************************************)
(* C7.  The request is dispatched at most once, and every transport        *)
(* failure (the request could not be sent, or the connection failed while  *)
(* the response was received) ends the invocation in failure; the outputs  *)
(* are emitted only for a response that was received completely.          *)
(***************************************************************************)
OutputsEmitted == \E k \in 1..Len(stdout) : stdout[k] = "set-output name=message"

C7_TransportFailureIsTerminal ==
    /\ dispatches <= 1
    /\ (pc = "exited" /\ err \in {"transport", "unexpected EOF"}) => exitCode # 0
    /\ OutputsEmitted => respBody = resp.Body

(***************************************************************************)
(* C8.  A signing failure is reported and ends the invocation: a request   *)
(* is dispatched only after signing succeeded, so it always carries its    *)
(* Authorization header.                                                   *)
(***************************************************************************)
C8_DispatchOnlyAfterSigning ==
    /\ dispatches > 0
          => /\ signResult = "ok"
             /\ HeaderValues(req.Header,
                    <<"A", "u", "t", "h", "o", "r", "i", "z", "a", "t", "i", "o", "n">>) # <<>>
    /\ (signResult = "error" /\ pc = "exited") => (dispatches = 0 /\ exitCode # 0)

(***************************************************************************)
(* C10.  When buildRequest returns, the body was read once, for the hash,  *)
(* and the Body of the returned request still yields the whole body when   *)
(* it is read for transmission.                                            *)
(***************************************************************************)
C10_ReturnedBodyIsNotExhausted ==
    pc = "resetBody"
        => /\ bodyHash = PayloadHash(requestBody)
           /\ BodyBytes(req, readers) = requestBody

=============================================================================
